---- MODULE Spec2Model ----
(***************************************************************************)
(* The execution core of the nese 6502 emulator (src/src/cpu.rs): the      *)
(* register file, the flat memory with its little-endian word helpers, the *)
(* addressing resolver, the instruction executor and the dispatch loop.    *)
(*                                                                         *)
(* Numbers are written as in the source: \hFF is 0xFF, \b10 is 0b10.       *)
(* A u8 is a number in 0..255 and a u16 a number in 0..65535; every        *)
(* wrapping_add is an addition modulo 2^8 or 2^16.  A Rust panic (an index *)
(* out of bounds, expect, todo!, panic!) ends the call: the CPU keeps the  *)
(* values it had when the panic was raised and `panic` names the message.  *)
(***************************************************************************)
EXTENDS Integers, Sequences, FiniteSets

VARIABLES register_a, register_x, register_y, status, pc, memory,
          panic, phase, runs, loaded, call, ret

cpu_vars == <<register_a, register_x, register_y, status, pc, memory, panic>>
vars == <<register_a, register_x, register_y, status, pc, memory, panic,
          phase, runs, loaded, call, ret>>

(***************************************************************************)
(* Widths and fixed addresses.                                             *)
(***************************************************************************)
U8 == 0..255
Pow8 == 2 ^ 8
Pow16 == 2 ^ 16
\* memory: [u8; 0xFFFF]: the valid indices are 0 .. 0xFFFE.
MemSize == \hFFFF
\* load copies the image to 0x8000 and stores 0x8000 as the reset vector.
PrgStart == \h8000
\* reset reads the program counter from the word at 0xFFFC.
ResetVector == \hFFFC

NoPanic == "none"
IndexOutOfBounds == "index out of bounds"
OpcodeNotValid == "opcode not valid"
NotYetImplemented == "not yet implemented"
ModeNotSupported == "mode is not supported"
AddOverflow == "attempt to add with overflow"

\* The value or the panic of a call that returns a value.
Ok(v) == [panic |-> NoPanic, val |-> v]
Err(msg) == [panic |-> msg, val |-> 0]

\* Bit k of v, and v with bit k set or cleared (status | mask, status & !mask).
Bit(v, k) == (v \div (2 ^ k)) % 2
SetBit(v, k) == IF Bit(v, k) = 1 THEN v ELSE v + 2 ^ k
ClearBit(v, k) == IF Bit(v, k) = 1 THEN v - 2 ^ k ELSE v

(***************************************************************************)
(* Memory.  The array is kept as the byte most cells hold (`fill`, 0 after *)
(* CPU::new) and the finite set of cells that differ from it, so that two  *)
(* arrays with the same contents are the same value.                       *)
(***************************************************************************)
ZeroedMemory == [fill |-> 0, cells |-> <<>>]

\* self.memory[i], for an index inside the array.
MemAt(m, i) == IF i \in DOMAIN m.cells THEN m.cells[i] ELSE m.fill

\* self.memory[i] = data, for an index inside the array.
MemPut(m, i, data) ==
  [m EXCEPT !.cells =
     [j \in (IF data = m.fill THEN DOMAIN m.cells \ {i} ELSE DOMAIN m.cells \cup {i})
        |-> IF j = i THEN data ELSE m.cells[j]]]

\* CPU::new.
new ==
  [register_a |-> 0, register_x |-> 0, register_y |-> 0, status |-> 0, pc |-> 0,
   memory |-> ZeroedMemory, panic |-> NoPanic]

\* A call that panicked: the CPU as it was, with the panic's message.
Abort(c, msg) == [c EXCEPT !.panic = msg]

\* mem_read: an index of 0xFFFF or more is out of the array's bounds.
mem_read(c, addr) ==
  IF addr < MemSize THEN Ok(MemAt(c.memory, addr)) ELSE Err(IndexOutOfBounds)

\* mem_write on an array of 0x10000 bytes: every u16 is a valid index.
mem_write_64k(c, addr, data) ==
  IF addr < Pow16
    THEN [c EXCEPT !.memory = MemPut(c.memory, addr, data)]
    ELSE Abort(c, IndexOutOfBounds)

\* mem_write with the program region (0x8000 and above) kept as it is, as a
\* cartridge's ROM would be.
mem_write_protecting_program(c, addr, data) ==
  IF addr < MemSize
    THEN IF addr >= \h8000 THEN c
         ELSE [c EXCEPT !.memory = MemPut(c.memory, addr, data)]
    ELSE Abort(c, IndexOutOfBounds)

\* mem_write.
mem_write(c, addr, data) ==
  IF addr < MemSize
    THEN [c EXCEPT !.memory = MemPut(c.memory, addr, data)]
    ELSE Abort(c, IndexOutOfBounds)

\* mem_read_u16: lo at pos, hi at pos + 1.  pos + 1 cannot overflow: at
\* pos = 0xFFFF the read of lo has already panicked.
mem_read_u16(c, pos) ==
  LET lo == mem_read(c, pos)
  IN  IF lo.panic # NoPanic THEN lo
      ELSE LET hi == mem_read(c, pos + 1)
           IN  IF hi.panic # NoPanic THEN hi
               ELSE Ok(hi.val * Pow8 + lo.val)

\* mem_write_u16 with the bytes swapped: hi at pos, lo at pos + 1.
mem_write_u16_big_endian(c, pos, data) ==
  LET hi == data \div Pow8
      lo == data % Pow8
      c1 == mem_write(c, pos, hi)
  IN  IF c1.panic # NoPanic THEN c1 ELSE mem_write(c1, pos + 1, lo)

\* mem_write_u16: lo is written first, then hi at pos + 1.
mem_write_u16(c, pos, data) ==
  LET hi == data \div Pow8
      lo == data % Pow8
      c1 == mem_write(c, pos, lo)
  IN  IF c1.panic # NoPanic THEN c1 ELSE mem_write(c1, pos + 1, hi)

(***************************************************************************)
(* Register file.                                                          *)
(***************************************************************************)
\* update_zero_flag with the masks of bit 2 (0b0000_0100, 0b1111_1011).
update_zero_flag_on_bit_2(c, result) ==
  IF result = 0
    THEN [c EXCEPT !.status = SetBit(c.status, 2)]
    ELSE [c EXCEPT !.status = ClearBit(c.status, 2)]

\* update_zero_flag.
update_zero_flag(c, result) ==
  IF result = 0
    THEN [c EXCEPT !.status = SetBit(c.status, 1)]
    ELSE [c EXCEPT !.status = ClearBit(c.status, 1)]

\* update_negative_flag.
update_negative_flag(c, result) ==
  IF Bit(result, 7) # 0
    THEN [c EXCEPT !.status = SetBit(c.status, 7)]
    ELSE [c EXCEPT !.status = ClearBit(c.status, 7)]

\* reset zeroing register_y with the other registers.
reset_clearing_y(c) ==
  LET c1 == [c EXCEPT !.register_a = 0, !.register_x = 0, !.register_y = 0, !.status = 0]
      v == mem_read_u16(c1, ResetVector)
  IN  IF v.panic # NoPanic THEN Abort(c1, v.panic) ELSE [c1 EXCEPT !.pc = v.val]

\* reset.
reset(c) ==
  LET c1 == [c EXCEPT !.register_a = 0, !.register_x = 0, !.status = 0]
      v == mem_read_u16(c1, ResetVector)
  IN  IF v.panic # NoPanic THEN Abort(c1, v.panic) ELSE [c1 EXCEPT !.pc = v.val]

(***************************************************************************)
(* Addressing resolver.                                                    *)
(***************************************************************************)
AddressingMode ==
  {"Immediate", "ZeroPage", "ZeroPage_X", "ZeroPage_Y", "Absolute", "Absolute_X",
   "Absolute_Y", "Indirect_X", "Indirect_Y", "NoneAddressing"}

\* A u8 addition widened to u16 before it is made: the carry is kept.
widening_add_u8(a, b) == a + b

\* u8 and u16 wrapping_add.
wrapping_add_u8(a, b) == (a + b) % Pow8
wrapping_add_u16(a, b) == (a + b) % Pow16

\* get_operand_address with Indirect_X indexed as Indirect_Y is: the word
\* is read at base and register_x added to it.
get_operand_address_x_post_indexed(c, mode) ==
  CASE mode = "Immediate" -> Ok(c.pc)
    [] mode = "ZeroPage" -> mem_read(c, c.pc)
    [] mode = "Absolute" -> mem_read_u16(c, c.pc)
    [] mode = "ZeroPage_X" ->
         LET pos == mem_read(c, c.pc)
         IN  IF pos.panic # NoPanic THEN pos
             ELSE Ok(wrapping_add_u8(pos.val, c.register_x))
    [] mode = "ZeroPage_Y" ->
         LET pos == mem_read(c, c.pc)
         IN  IF pos.panic # NoPanic THEN pos
             ELSE Ok(wrapping_add_u8(pos.val, c.register_y))
    [] mode = "Absolute_X" ->
         LET base == mem_read_u16(c, c.pc)
         IN  IF base.panic # NoPanic THEN base
             ELSE Ok(wrapping_add_u16(base.val, c.register_x))
    [] mode = "Absolute_Y" ->
         LET base == mem_read_u16(c, c.pc)
         IN  IF base.panic # NoPanic THEN base
             ELSE Ok(wrapping_add_u16(base.val, c.register_y))
    [] mode = "Indirect_X" ->
         LET base == mem_read(c, c.pc)
         IN  IF base.panic # NoPanic THEN base
             ELSE LET deref_base == mem_read_u16(c, base.val)
                  IN  IF deref_base.panic # NoPanic THEN deref_base
                      ELSE Ok(wrapping_add_u16(deref_base.val, c.register_x))
    [] mode = "Indirect_Y" ->
         LET base == mem_read(c, c.pc)
         IN  IF base.panic # NoPanic THEN base
             ELSE LET deref_base == mem_read_u16(c, base.val)
                  IN  IF deref_base.panic # NoPanic THEN deref_base
                      ELSE Ok(wrapping_add_u16(deref_base.val, c.register_y))
    [] OTHER -> Err(ModeNotSupported)

\* get_operand_address with Indirect_Y indexed as Indirect_X is: register_y
\* is added to base, modulo 256, and the word is read there.
get_operand_address_y_pre_indexed(c, mode) ==
  CASE mode = "Immediate" -> Ok(c.pc)
    [] mode = "ZeroPage" -> mem_read(c, c.pc)
    [] mode = "Absolute" -> mem_read_u16(c, c.pc)
    [] mode = "ZeroPage_X" ->
         LET pos == mem_read(c, c.pc)
         IN  IF pos.panic # NoPanic THEN pos
             ELSE Ok(wrapping_add_u8(pos.val, c.register_x))
    [] mode = "ZeroPage_Y" ->
         LET pos == mem_read(c, c.pc)
         IN  IF pos.panic # NoPanic THEN pos
             ELSE Ok(wrapping_add_u8(pos.val, c.register_y))
    [] mode = "Absolute_X" ->
         LET base == mem_read_u16(c, c.pc)
         IN  IF base.panic # NoPanic THEN base
             ELSE Ok(wrapping_add_u16(base.val, c.register_x))
    [] mode = "Absolute_Y" ->
         LET base == mem_read_u16(c, c.pc)
         IN  IF base.panic # NoPanic THEN base
             ELSE Ok(wrapping_add_u16(base.val, c.register_y))
    [] mode = "Indirect_X" ->
         LET base == mem_read(c, c.pc)
         IN  IF base.panic # NoPanic THEN base
             ELSE mem_read_u16(c, wrapping_add_u8(base.val, c.register_x))
    [] mode = "Indirect_Y" ->
         LET base == mem_read(c, c.pc)
         IN  IF base.panic # NoPanic THEN base
             ELSE mem_read_u16(c, wrapping_add_u8(base.val, c.register_y))
    [] OTHER -> Err(ModeNotSupported)

\* get_operand_address.
get_operand_address(c, mode) ==
  CASE mode = "Immediate" -> Ok(c.pc)
    [] mode = "ZeroPage" -> mem_read(c, c.pc)
    [] mode = "Absolute" -> mem_read_u16(c, c.pc)
    [] mode = "ZeroPage_X" ->
         LET pos == mem_read(c, c.pc)
         IN  IF pos.panic # NoPanic THEN pos
             ELSE Ok(wrapping_add_u8(pos.val, c.register_x))
    [] mode = "ZeroPage_Y" ->
         LET pos == mem_read(c, c.pc)
         IN  IF pos.panic # NoPanic THEN pos
             ELSE Ok(wrapping_add_u8(pos.val, c.register_y))
    [] mode = "Absolute_X" ->
         LET base == mem_read_u16(c, c.pc)
         IN  IF base.panic # NoPanic THEN base
             ELSE Ok(wrapping_add_u16(base.val, c.register_x))
    [] mode = "Absolute_Y" ->
         LET base == mem_read_u16(c, c.pc)
         IN  IF base.panic # NoPanic THEN base
             ELSE Ok(wrapping_add_u16(base.val, c.register_y))
    [] mode = "Indirect_X" ->
         LET base == mem_read(c, c.pc)
         IN  IF base.panic # NoPanic THEN base
             ELSE mem_read_u16(c, wrapping_add_u8(base.val, c.register_x))
    [] mode = "Indirect_Y" ->
         LET base == mem_read(c, c.pc)
         IN  IF base.panic # NoPanic THEN base
             ELSE LET deref_base == mem_read_u16(c, base.val)
                  IN  IF deref_base.panic # NoPanic THEN deref_base
                      ELSE Ok(wrapping_add_u16(deref_base.val, c.register_y))
    [] OTHER -> Err(ModeNotSupported)

(***************************************************************************)
(* Instruction executor.                                                   *)
(***************************************************************************)
\* lda without its last line, the update of the Negative flag.
lda_without_negative_flag(c, mode) ==
  LET addr == get_operand_address(c, mode)
  IN  IF addr.panic # NoPanic THEN Abort(c, addr.panic)
      ELSE LET value == mem_read(c, addr.val)
           IN  IF value.panic # NoPanic THEN Abort(c, value.panic)
               ELSE LET c1 == [c EXCEPT !.register_a = value.val]
                    IN  update_zero_flag(c1, c1.register_a)

\* lda.
lda(c, mode) ==
  LET addr == get_operand_address(c, mode)
  IN  IF addr.panic # NoPanic THEN Abort(c, addr.panic)
      ELSE LET value == mem_read(c, addr.val)
           IN  IF value.panic # NoPanic THEN Abort(c, value.panic)
               ELSE LET c1 == [c EXCEPT !.register_a = value.val]
                        c2 == update_zero_flag(c1, c1.register_a)
                    IN  update_negative_flag(c2, c2.register_a)

\* sta followed by the two flag updates of the other instructions.
sta_updating_flags(c, mode) ==
  LET addr == get_operand_address(c, mode)
  IN  IF addr.panic # NoPanic THEN Abort(c, addr.panic)
      ELSE LET c1 == mem_write(c, addr.val, c.register_a)
           IN  IF c1.panic # NoPanic THEN c1
               ELSE update_negative_flag(update_zero_flag(c1, c1.register_a),
                                         c1.register_a)

\* sta.
sta(c, mode) ==
  LET addr == get_operand_address(c, mode)
  IN  IF addr.panic # NoPanic THEN Abort(c, addr.panic)
      ELSE mem_write(c, addr.val, c.register_a)

\* tax.
tax(c) ==
  LET c1 == [c EXCEPT !.register_x = c.register_a]
      c2 == update_zero_flag(c1, c1.register_x)
  IN  update_negative_flag(c2, c2.register_x)

\* inx with a saturating_add: 0xFF stays 0xFF.
inx_saturating(c) ==
  LET c1 == [c EXCEPT !.register_x = IF c.register_x = 255 THEN 255 ELSE c.register_x + 1]
      c2 == update_zero_flag(c1, c1.register_x)
  IN  update_negative_flag(c2, c2.register_x)

\* inx.
inx(c) ==
  LET c1 == [c EXCEPT !.register_x = wrapping_add_u8(c.register_x, 1)]
      c2 == update_zero_flag(c1, c1.register_x)
  IN  update_negative_flag(c2, c2.register_x)

\* iny without the update of the Zero flag.
iny_without_zero_flag(c) ==
  LET c1 == [c EXCEPT !.register_y = wrapping_add_u8(c.register_y, 1)]
  IN  update_negative_flag(c1, c1.register_y)

\* iny.
iny(c) ==
  LET c1 == [c EXCEPT !.register_y = wrapping_add_u8(c.register_y, 1)]
      c2 == update_zero_flag(c1, c1.register_y)
  IN  update_negative_flag(c2, c2.register_y)

\* tay with tax's destination: the copy goes to register_x.
tay_into_x(c) ==
  LET c1 == [c EXCEPT !.register_x = c.register_a]
      c2 == update_zero_flag(c1, c1.register_y)
  IN  update_negative_flag(c2, c2.register_y)

\* tay.
tay(c) ==
  LET c1 == [c EXCEPT !.register_y = c.register_a]
      c2 == update_zero_flag(c1, c1.register_y)
  IN  update_negative_flag(c2, c2.register_y)

(***************************************************************************)
(* The opcode table (crate::op_codes, consumed by run): for each opcode    *)
(* byte it holds, the instruction's length in bytes and addressing mode.   *)
(* The entries are those of the 6502 for the instructions run dispatches,  *)
(* and two entries (NOP, LDX #) that run has no arm for.                   *)
(***************************************************************************)
OpCodeEntries ==
  { <<\h00, 1, "NoneAddressing">>, <<\hAA, 1, "NoneAddressing">>,
    <<\hA8, 1, "NoneAddressing">>, <<\hE8, 1, "NoneAddressing">>,
    <<\hC8, 1, "NoneAddressing">>,
    <<\hA9, 2, "Immediate">>,  <<\hA5, 2, "ZeroPage">>,   <<\hB5, 2, "ZeroPage_X">>,
    <<\hAD, 3, "Absolute">>,   <<\hBD, 3, "Absolute_X">>, <<\hB9, 3, "Absolute_Y">>,
    <<\hA1, 2, "Indirect_X">>, <<\hB1, 2, "Indirect_Y">>,
    <<\h85, 2, "ZeroPage">>,   <<\h95, 2, "ZeroPage_X">>,
    <<\h8D, 3, "Absolute">>,   <<\h9D, 3, "Absolute_X">>, <<\h99, 3, "Absolute_Y">>,
    <<\h81, 2, "Indirect_X">>, <<\h91, 2, "Indirect_Y">>,
    <<\hEA, 1, "NoneAddressing">>, <<\hA2, 2, "Immediate">> }

OP_CODES_MAP ==
  [code \in {e[1] : e \in OpCodeEntries} |->
     LET e == CHOOSE e \in OpCodeEntries : e[1] = code
     IN  [len |-> e[2], mode |-> e[3]]]

\* The arms of run's match.
LdaCodes == {\hA9, \hA5, \hB5, \hAD, \hBD, \hB9, \hA1, \hB1}
StaCodes == {\h85, \h95, \h8D, \h9D, \h99, \h81, \h91}

(***************************************************************************)
(* Execution.                                                              *)
(***************************************************************************)
\* self.memory[start..start + len].copy_from_slice(&program[..]).
RECURSIVE copy_from_slice(_, _, _)
copy_from_slice(m, start, program) ==
  IF program = <<>> THEN m
  ELSE copy_from_slice(MemPut(m, start, Head(program)), start + 1, Tail(program))

\* load without its second line: the reset vector is not written.
load_without_reset_vector(c, program) ==
  IF PrgStart + Len(program) > MemSize
    THEN Abort(c, IndexOutOfBounds)
    ELSE [c EXCEPT !.memory = copy_from_slice(c.memory, PrgStart, program)]

\* load: the slice's range is checked against the array before any byte is
\* copied.
load(c, program) ==
  IF PrgStart + Len(program) > MemSize
    THEN Abort(c, IndexOutOfBounds)
    ELSE mem_write_u16([c EXCEPT !.memory = copy_from_slice(c.memory, PrgStart, program)],
                       ResetVector, PrgStart)

\* self.pc += n on a u16: past 0xFFFF a build with overflow checks panics
\* and a build without them wraps.
add_to_pc(c, n, overflow_checks) ==
  IF c.pc + n < Pow16 THEN [c EXCEPT !.pc = c.pc + n]
  ELSE IF overflow_checks THEN Abort(c, AddOverflow)
  ELSE [c EXCEPT !.pc = (c.pc + n) % Pow16]

\* run's match with 0x00 as the 6502's BRK: the Break flag (bit 4) is set.
dispatch_brk_sets_break(c, code, opcode) ==
  CASE code \in LdaCodes -> [cpu |-> lda(c, opcode.mode), returned |-> FALSE]
    [] code \in StaCodes -> [cpu |-> sta(c, opcode.mode), returned |-> FALSE]
    [] code = \hAA -> [cpu |-> tax(c), returned |-> FALSE]
    [] code = \hA8 -> [cpu |-> tay(c), returned |-> FALSE]
    [] code = \hE8 -> [cpu |-> inx(c), returned |-> FALSE]
    [] code = \hC8 -> [cpu |-> iny(c), returned |-> FALSE]
    [] code = \h00 -> [cpu |-> [c EXCEPT !.status = SetBit(c.status, 4)], returned |-> TRUE]
    [] OTHER -> [cpu |-> Abort(c, NotYetImplemented), returned |-> FALSE]

\* run's match with an empty last arm, _ => {}, in place of todo!().
dispatch_skipping_unknown(c, code, opcode) ==
  CASE code \in LdaCodes -> [cpu |-> lda(c, opcode.mode), returned |-> FALSE]
    [] code \in StaCodes -> [cpu |-> sta(c, opcode.mode), returned |-> FALSE]
    [] code = \hAA -> [cpu |-> tax(c), returned |-> FALSE]
    [] code = \hA8 -> [cpu |-> tay(c), returned |-> FALSE]
    [] code = \hE8 -> [cpu |-> inx(c), returned |-> FALSE]
    [] code = \hC8 -> [cpu |-> iny(c), returned |-> FALSE]
    [] code = \h00 -> [cpu |-> c, returned |-> TRUE]
    [] OTHER -> [cpu |-> c, returned |-> FALSE]

\* run's match with 0xAA in the arm of the LDA opcodes: tax is reached
\* through lda(&opcode.mode).
dispatch_tax_through_lda(c, code, opcode) ==
  CASE code \in LdaCodes \cup {\hAA} -> [cpu |-> lda(c, opcode.mode), returned |-> FALSE]
    [] code \in StaCodes -> [cpu |-> sta(c, opcode.mode), returned |-> FALSE]
    [] code = \hA8 -> [cpu |-> tay(c), returned |-> FALSE]
    [] code = \hE8 -> [cpu |-> inx(c), returned |-> FALSE]
    [] code = \hC8 -> [cpu |-> iny(c), returned |-> FALSE]
    [] code = \h00 -> [cpu |-> c, returned |-> TRUE]
    [] OTHER -> [cpu |-> Abort(c, NotYetImplemented), returned |-> FALSE]

\* run's match on the fetched code: the CPU after the arm, and whether the
\* arm returned from run.
dispatch(c, code, opcode) ==
  CASE code \in LdaCodes -> [cpu |-> lda(c, opcode.mode), returned |-> FALSE]
    [] code \in StaCodes -> [cpu |-> sta(c, opcode.mode), returned |-> FALSE]
    [] code = \hAA -> [cpu |-> tax(c), returned |-> FALSE]
    [] code = \hA8 -> [cpu |-> tay(c), returned |-> FALSE]
    [] code = \hE8 -> [cpu |-> inx(c), returned |-> FALSE]
    [] code = \hC8 -> [cpu |-> iny(c), returned |-> FALSE]
    [] code = \h00 -> [cpu |-> c, returned |-> TRUE]
    [] OTHER -> [cpu |-> Abort(c, NotYetImplemented), returned |-> FALSE]

\* The end of a pass adding the whole length, opcode byte included.
advance_by_len(c, old_pc, opcode, overflow_checks) ==
  IF old_pc = c.pc THEN add_to_pc(c, opcode.len, overflow_checks) ELSE c

\* The end of a pass with the sign slipped: self.pc -= (opcode.len - 1).
advance_backwards(c, old_pc, opcode, overflow_checks) ==
  IF old_pc = c.pc THEN [c EXCEPT !.pc = c.pc - (opcode.len - 1)] ELSE c

\* The end of a pass: if old_pc == self.pc { self.pc += (opcode.len - 1) }.
advance(c, old_pc, opcode, overflow_checks) ==
  IF old_pc = c.pc THEN add_to_pc(c, opcode.len - 1, overflow_checks) ELSE c

\* One pass of run's loop: the CPU after it, and whether run returned.
run_iteration(c, overflow_checks) ==
  LET code == mem_read(c, c.pc)
  IN  IF code.panic # NoPanic THEN [cpu |-> Abort(c, code.panic), returned |-> FALSE]
      ELSE
        LET c1 == add_to_pc(c, 1, overflow_checks)
            old_pc == c1.pc
        IN  IF c1.panic # NoPanic THEN [cpu |-> c1, returned |-> FALSE]
            ELSE IF code.val \notin DOMAIN OP_CODES_MAP
              THEN [cpu |-> Abort(c1, OpcodeNotValid), returned |-> FALSE]
            ELSE
              LET opcode == OP_CODES_MAP[code.val]
                  d == dispatch(c1, code.val, opcode)
              IN  IF d.cpu.panic # NoPanic \/ d.returned THEN d
                  ELSE [cpu |-> advance(d.cpu, old_pc, opcode, overflow_checks),
                        returned |-> FALSE]

(***************************************************************************)
(* The state machine.  phase is the caller's position: "idle" before any   *)
(* call, "loaded" inside load_and_run after load, "running" inside run,    *)
(* "halted" once run has returned, "panicked" once a call has panicked.    *)
(***************************************************************************)
Self ==
  [register_a |-> register_a, register_x |-> register_x, register_y |-> register_y,
   status |-> status, pc |-> pc, memory |-> memory, panic |-> panic]

Become(c) ==
  /\ register_a' = c.register_a
  /\ register_x' = c.register_x
  /\ register_y' = c.register_y
  /\ status' = c.status
  /\ pc' = c.pc
  /\ memory' = c.memory
  /\ panic' = c.panic

\* The phase a call leaves: "panicked" if it panicked, else `next`.
PhaseAfter(c, next) == IF c.panic # NoPanic THEN "panicked" ELSE next

\* call is the caller's pending or latest call with its arguments, and ret
\* what a call that returns a value gave.  No call yet:
NoCall ==
  [fn |-> "none", mode |-> "NoneAddressing", pos |-> 0, data |-> 0, program |-> <<>>]

(***************************************************************************)
(* Spec: a CPU fresh from CPU::new, given program images byte by byte.     *)
(***************************************************************************)
\* How many times load_and_run is called on the CPU, and how many image
\* bytes it is given in all.
MaxRuns == 2
MaxImageBytes == 3
\* The bytes images are made of: Halt, 0x7F and 0xFF (data, and no opcodes
\* of the table), LDA #, STA zp,X, TAX, TAY, INX, INY.
ProgBytes == {\h00, \h7F, \hFF, \hA9, \h95, \hAA, \hA8, \hE8, \hC8}
Programs(maxlen) == UNION {[1..n -> ProgBytes] : n \in 0..maxlen}

Init ==
  /\ register_a = new.register_a
  /\ register_x = new.register_x
  /\ register_y = new.register_y
  /\ status = new.status
  /\ pc = new.pc
  /\ memory = new.memory
  /\ panic = new.panic
  /\ phase = "idle"
  /\ runs = 0
  /\ loaded = 0
  /\ call = NoCall
  /\ ret = Ok(0)

\* load_and_run(program), up to the return of load.
Load ==
  /\ phase \in {"idle", "halted"}
  /\ runs < MaxRuns
  /\ \E program \in Programs(MaxImageBytes - loaded) :
       LET c == load(Self, program)
       IN  /\ Become(c)
           /\ phase' = PhaseAfter(c, "loaded")
           /\ loaded' = loaded + Len(program)
           /\ call' = [NoCall EXCEPT !.fn = "load_and_run", !.program = program]
  /\ runs' = runs + 1
  /\ UNCHANGED ret

\* load_and_run: the call of reset.
Reset ==
  /\ phase = "loaded"
  /\ LET c == reset(Self)
     IN  Become(c) /\ phase' = PhaseAfter(c, "running")
  /\ UNCHANGED <<runs, loaded, call, ret>>

\* run: one pass of the loop.
Run ==
  /\ phase = "running"
  /\ \E overflow_checks \in BOOLEAN :
       \E r \in {run_iteration(Self, overflow_checks)} :
         /\ Become(r.cpu)
         /\ phase' = PhaseAfter(r.cpu, IF r.returned THEN "halted" ELSE "running")
  /\ UNCHANGED <<runs, loaded, call, ret>>

Next == Load \/ Reset \/ Run

Spec == Init /\ [][Next]_vars
(***************************************************************************)
(* SpecUnit: the executor, the resolver and the word helpers on drawn      *)
(* inputs.  An input is either a program image given to load_and_run on a  *)
(* CPU whose memory the caller has filled with one byte, or a single call  *)
(* of get_operand_address or of mem_write_u16 and mem_read_u16 on a CPU    *)
(* whose public registers and memory the caller has set.                   *)
(***************************************************************************)
\* How many times an image repeats its instruction under test.
MaxReps == 2

\* The byte the caller fills memory with before the call.
FillBytes == {\h00, \h01, \h80, \hFF}
\* The values the image's first instructions leave in A, X and Y.
AccBytes == {\h00, \h01, \h80}
\* X and Y are given different values: no instruction reads both.
IndexPairs == {<<\h00, \h01>>, <<\h01, \h7F>>, <<\h7F, \hFF>>, <<\hFF, \h00>>}
\* The operand bytes of the instruction under test.
OperandBytes == {\h00, \h80, \hFF}
HighBytes == {\h00, \hFF}
\* A byte that is no opcode of the table.
AbsentCodes == {\hFF}

\* Every instruction of the table, and one byte that is none, with operands.
Instructions ==
  LET codes == DOMAIN OP_CODES_MAP
  IN  {<<code>> : code \in {k \in codes : OP_CODES_MAP[k].len = 1} \cup AbsentCodes}
      \cup {<<code, b1>> : code \in {k \in codes : OP_CODES_MAP[k].len = 2},
                           b1 \in OperandBytes}
      \cup {<<code, b1, b2>> : code \in {k \in codes : OP_CODES_MAP[k].len = 3},
                               b1 \in OperandBytes, b2 \in HighBytes}

RECURSIVE Repeat(_, _)
Repeat(instr, n) == IF n = 0 THEN <<>> ELSE instr \o Repeat(instr, n - 1)

\* LDA #xv, TAX, LDA #yv, TAY, LDA #av, the instruction under test `reps`
\* times, Halt.
Image(av, xv, yv, instr, reps) ==
  <<\hA9, xv, \hAA, \hA9, yv, \hA8, \hA9, av>> \o Repeat(instr, reps) \o <<\h00>>
\* The address of the first instruction under test.
UnderTest == PrgStart + 8

\* A CPU fresh from CPU::new whose memory the caller has filled with `fill`.
Filled(fill) == [new EXCEPT !.memory = [fill |-> fill, cells |-> <<>>]]

\* The samples of the direct calls.
EdgeBytes == {\h00, \h01, \h7F, \h80, \hFE, \hFF}
\* A memory whose bytes at 0x0000..0x0100 all differ (7 * i + 5 mod 256), the
\* rest being `fill`: every pointer of the zero page holds its own word.
PatternByte(i) == (7 * i + 5) % Pow8
Patterned(fill) ==
  [fill |-> fill,
   cells |-> [i \in {j \in 0..Pow8 : PatternByte(j) # fill} |-> PatternByte(i)]]
\* The addresses run is entered at, next to the top of memory.
TopAddrs == {\hFFFB, \hFFFC, \hFFFD, \hFFFE, \hFFFF}
\* The status bytes the caller sets before a direct call of run.
StatusBytes == {\h00, \hFF}
\* The byte a scenario stores or is seeded with.
SeedBytes == {\h00, \h0A, \h55, \h80, \hE8}

\* cpu.mem_write(addr, data) for each <<addr, data>> of seeds, in order.
RECURSIVE Seeded(_, _)
Seeded(c, seeds) ==
  IF seeds = <<>> THEN c
  ELSE Seeded(mem_write(c, Head(seeds)[1], Head(seeds)[2]), Tail(seeds))

\* The scenarios: the memory bytes written before load_and_run, and the
\* image.  The first four are the tests of the repository, with v for the
\* byte they load or store; in the others the image reads back, as an
\* operand, as a pointer or as an opcode, a byte that it has stored.
LdaFromMemory(v) == [seeds |-> <<<<\h10, v>>>>, program |-> <<\hA5, \h10, \h00>>]
LdaIndirectX(v) ==
  [seeds |-> <<<<\h01, \h05>>, <<\h02, \h07>>, <<\h0705, v>>>>,
   program |-> <<\hA9, \h01, \hAA, \hA1, \h00, \h00>>]
LdaIndirectY(v) ==
  [seeds |-> <<<<\h01, \h03>>, <<\h02, \h07>>, <<\h0704, v>>>>,
   program |-> <<\hA9, \h01, \hA8, \hB1, \h01, \h00>>]
StaZeroPageX(v) ==
  [seeds |-> <<>>,
   program |-> <<\hA9, \h01, \hAA, \hA9, v, \h95, \hA0, \hE8, \h95, \hA0, \h00>>]
\* LDA #v, STA $10, LDA #$FF, LDA $10, Halt.
StoreThenLoad(v) ==
  [seeds |-> <<>>, program |-> <<\hA9, v, \h85, \h10, \hA9, \hFF, \hA5, \h10, \h00>>]
\* LDA #v, STA $10, LDA #$FF, STA $10, LDA #v, LDA $10, Halt.
StoreTwiceThenLoad(v) ==
  [seeds |-> <<>>,
   program |-> <<\hA9, v, \h85, \h10, \hA9, \hFF, \h85, \h10, \hA9, v, \hA5, \h10, \h00>>]
\* With 0x77 at address v: LDA #v, STA $20, LDA #$FF, LDA ($20),Y, Halt.
StoreThenPoint(v) ==
  [seeds |-> <<<<v, \h77>>>>,
   program |-> <<\hA9, v, \h85, \h20, \hA9, \hFF, \hB1, \h20, \h00>>]
\* LDA #v, STA $8005, and at 0x8005 the byte 0xFF, then Halt.
StoreThenFetch(v) ==
  [seeds |-> <<>>, program |-> <<\hA9, v, \h8D, \h05, \h80, \hFF, \h00>>]
Scenarios ==
  UNION {{LdaFromMemory(v), LdaIndirectX(v), LdaIndirectY(v), StaZeroPageX(v),
          StoreThenLoad(v), StoreTwiceThenLoad(v), StoreThenPoint(v), StoreThenFetch(v)} :
         v \in SeedBytes}
WordAddrs == {\h0000, \h00FF, \h7FFF, \h8000, \hFFFC, \hFFFD, \hFFFE, \hFFFF}
WordValues == {\h0000, \h0001, \h00FF, \h0100, \h1234, \h8000, \hABCD, \hFF00, \hFFFF}

\* An entry of the caller into load_and_run or run: the CPU and the caller's
\* position and call.
Entry(c, ph, rn, ld, cl) == [cpu |-> c, phase |-> ph, runs |-> rn, loaded |-> ld, call |-> cl]
Starts(e) ==
  /\ register_a = e.cpu.register_a
  /\ register_x = e.cpu.register_x
  /\ register_y = e.cpu.register_y
  /\ status = e.cpu.status
  /\ pc = e.cpu.pc
  /\ memory = e.cpu.memory
  /\ panic = e.cpu.panic
  /\ phase = e.phase
  /\ runs = e.runs
  /\ loaded = e.loaded
  /\ call = e.call
  /\ ret = Ok(0)

\* load_and_run(image) has returned from load.
ImageEntries ==
  {Entry(load(Filled(fill), Image(av, xy[1], xy[2], instr, reps)), "loaded", 1,
         Len(Image(av, xy[1], xy[2], instr, reps)),
         [NoCall EXCEPT !.fn = "load_and_run",
                        !.program = Image(av, xy[1], xy[2], instr, reps)]) :
     fill \in FillBytes, av \in AccBytes, xy \in IndexPairs, instr \in Instructions,
     reps \in 1..MaxReps}
InitImage == \E e \in ImageEntries : Starts(e)

\* load_and_run(program) of a scenario has returned from load.
ScenarioEntries ==
  {Entry(load(Seeded(new, s.seeds), s.program), "loaded", 1, Len(s.program),
         [NoCall EXCEPT !.fn = "load_and_run", !.program = s.program]) : s \in Scenarios}
InitScenario == \E e \in ScenarioEntries : Starts(e)

\* The caller has set the registers, status and pc, has written the bytes of
\* one instruction at pc (those that memory has room for) and calls run.
RunEntries ==
  {Entry([register_a |-> \h80, register_x |-> xy[1], register_y |-> xy[2],
          status |-> sv, pc |-> p,
          memory |-> copy_from_slice(Filled(fill).memory, p,
                                     SubSeq(instr, 1, IF p + Len(instr) > MemSize
                                                        THEN MemSize - p ELSE Len(instr))),
          panic |-> NoPanic],
         "running", 0, 0, [NoCall EXCEPT !.fn = "run", !.program = instr]) :
     fill \in HighBytes, sv \in StatusBytes, xy \in IndexPairs, p \in TopAddrs,
     instr \in Instructions}
InitRun == \E e \in RunEntries : Starts(e)

\* The caller is about to call get_operand_address(mode) with the operand
\* byte b at pc, for every byte b; X is an edge byte and Y another; the
\* zero page is uniform or patterned.
InitResolve ==
  \E fill \in HighBytes, patterned \in BOOLEAN, b \in U8, xv \in EdgeBytes,
     mode \in AddressingMode :
    /\ register_a = 0
    /\ register_x = xv
    /\ register_y = 255 - xv
    /\ status = 0
    /\ pc = PrgStart
    /\ memory = MemPut(IF patterned THEN Patterned(fill) ELSE Filled(fill).memory,
                       PrgStart, b)
    /\ panic = NoPanic
    /\ phase = "idle"
    /\ runs = 0
    /\ loaded = 0
    /\ call = [NoCall EXCEPT !.fn = "get_operand_address", !.mode = mode]
    /\ ret = Ok(0)

\* The caller is about to call mem_write_u16(pos, data) and then
\* mem_read_u16(pos).
InitWord ==
  \E fill \in FillBytes, pos \in WordAddrs, data \in WordValues :
    /\ register_a = 0
    /\ register_x = 0
    /\ register_y = 0
    /\ status = 0
    /\ pc = 0
    /\ memory = Filled(fill).memory
    /\ panic = NoPanic
    /\ phase = "idle"
    /\ runs = 0
    /\ loaded = 0
    /\ call = [NoCall EXCEPT !.fn = "mem_write_u16", !.pos = pos, !.data = data]
    /\ ret = Ok(0)

\* The caller is about to call lda(mode) with the operand byte b at pc.
InitLda ==
  \E fill \in FillBytes, b \in OperandBytes, av \in AccBytes, xy \in IndexPairs,
     mode \in AddressingMode :
    /\ register_a = av
    /\ register_x = xy[1]
    /\ register_y = xy[2]
    /\ status = 0
    /\ pc = PrgStart
    /\ memory = MemPut(Filled(fill).memory, PrgStart, b)
    /\ panic = NoPanic
    /\ phase = "idle"
    /\ runs = 0
    /\ loaded = 0
    /\ call = [NoCall EXCEPT !.fn = "lda", !.mode = mode]
    /\ ret = Ok(0)

InitUnit == InitImage \/ InitScenario \/ InitRun \/ InitResolve \/ InitWord \/ InitLda

\* get_operand_address(mode) is called and returns (it takes &self).
CallGetOperandAddress ==
  /\ phase = "idle"
  /\ call.fn = "get_operand_address"
  /\ LET r == get_operand_address(Self, call.mode)
     IN  /\ ret' = r
         /\ panic' = r.panic
         /\ phase' = IF r.panic # NoPanic THEN "panicked" ELSE "returned"
  /\ UNCHANGED <<register_a, register_x, register_y, status, pc, memory, runs,
                 loaded, call>>

\* mem_write_u16(pos, data) is called and returns.
CallMemWriteU16 ==
  /\ phase = "idle"
  /\ call.fn = "mem_write_u16"
  /\ LET c == mem_write_u16(Self, call.pos, call.data)
     IN  Become(c) /\ phase' = PhaseAfter(c, "returned")
  /\ UNCHANGED <<runs, loaded, call, ret>>

\* mem_read_u16(pos) is called after mem_write_u16(pos, data) and returns.
CallMemReadU16 ==
  /\ phase = "returned"
  /\ call.fn = "mem_write_u16"
  /\ LET r == mem_read_u16(Self, call.pos)
     IN  /\ ret' = r
         /\ panic' = r.panic
         /\ phase' = IF r.panic # NoPanic THEN "panicked" ELSE "returned"
  /\ call' = [call EXCEPT !.fn = "mem_read_u16"]
  /\ UNCHANGED <<register_a, register_x, register_y, status, pc, memory, runs, loaded>>

\* lda(mode) is called and returns.
CallLda ==
  /\ phase = "idle"
  /\ call.fn = "lda"
  /\ LET c == lda(Self, call.mode)
     IN  Become(c) /\ phase' = PhaseAfter(c, "returned")
  /\ UNCHANGED <<runs, loaded, call, ret>>

NextUnit ==
  Reset \/ Run \/ CallGetOperandAddress \/ CallMemWriteU16 \/ CallMemReadU16 \/ CallLda

SpecUnit == InitUnit /\ [][NextUnit]_vars
(***************************************************************************)
(* SpecRun: runs of SpecUnit with the loop's progress.  The caller starts  *)
(* from a fresh CPU and enters one of the runs above; run is a loop on the *)
(* calling thread, so a pass that can be made is made.                     *)
(***************************************************************************)
\* The runs entered: every scenario; the images whose first instructions
\* leave A = 0x80, X = 0x7F, Y = 0xFF, for every instruction under test and
\* every fill; the calls of run with status 0 on a memory of 0xFF.
LiveEntries ==
  ScenarioEntries
  \cup {e \in ImageEntries : e.call.program[2] = \h7F /\ e.call.program[8] = \h80}
  \cup {e \in RunEntries : e.cpu.status = \h00 /\ e.cpu.memory.fill = \hFF}

\* The caller prepares the CPU and calls load_and_run or run.
Enter ==
  /\ phase = "idle"
  /\ call = NoCall
  /\ \E e \in LiveEntries :
       /\ Become(e.cpu)
       /\ phase' = e.phase
       /\ runs' = e.runs
       /\ loaded' = e.loaded
       /\ call' = e.call
  /\ UNCHANGED ret

NextRun == Enter \/ Reset \/ Run

SpecRun == Init /\ [][NextRun]_vars /\ WF_vars(Run)

(***************************************************************************)
(* The vocabulary of the properties, in the terms of the specification:    *)
(* the bytes and little-endian words of memory, the two flags of status,   *)
(* and the effective address of each addressing mode for an operand that   *)
(* starts at address p.                                                    *)
(***************************************************************************)
Byte(i) == MemAt(memory, i)
Word(i) == Byte(i) + 256 * Byte(i + 1)
ZeroFlag(s) == (s \div 2) % 2 = 1
NegativeFlag(s) == (s \div 128) % 2 = 1
FlagsDescribe(s, v) == (ZeroFlag(s) <=> v = 0) /\ (NegativeFlag(s) <=> v >= 128)

EffectiveAddress(mode, p) ==
  CASE mode = "Immediate" -> p
    [] mode = "ZeroPage" -> Byte(p)
    [] mode = "ZeroPage_X" -> (Byte(p) + register_x) % 256
    [] mode = "ZeroPage_Y" -> (Byte(p) + register_y) % 256
    [] mode = "Absolute" -> Word(p)
    [] mode = "Absolute_X" -> (Word(p) + register_x) % 65536
    [] mode = "Absolute_Y" -> (Word(p) + register_y) % 65536
    [] mode = "Indirect_X" -> Word((Byte(p) + register_x) % 256)
    [] mode = "Indirect_Y" -> (Word(Byte(p)) + register_y) % 65536

AddressModes == AddressingMode \ {"NoneAddressing"}

\* The dispatch loop is about to fetch the opcode at pc.
Fetching == phase = "running" /\ pc < MemSize
Fetched == Byte(pc)
\* The pass of the loop that this step makes completes its instruction.
Completes == phase' = "running"
\* The instruction under test of the image, once it has completed n times.
TestedCode == Byte(UnderTest)
TestedLen == IF TestedCode \in DOMAIN OP_CODES_MAP THEN OP_CODES_MAP[TestedCode].len ELSE 1
AfterTested(n) ==
  /\ call.fn = "load_and_run"
  /\ Len(call.program) >= 9 + n * TestedLen
  /\ <<call.program[1], call.program[3], call.program[4], call.program[6],
        call.program[7]>> = <<\hA9, \hAA, \hA9, \hA8, \hA9>>
  /\ phase = "running"
  /\ pc = UnderTest + n * TestedLen

(* C1: for every byte v and every address-carrying addressing mode, a      *)
(* Load-Accumulator whose operand byte (the byte at the effective address) *)
(* is v leaves accumulator = v, the Zero flag set iff v = 0 and the        *)
(* Negative flag set iff bit 7 of v is 1; both as an instruction of the    *)
(* dispatch loop and as a call of lda with any of the nine modes.          *)
C1_LdaLoadsOperandAndFlags ==
  /\ [][(Fetching /\ Fetched \in LdaCodes /\ Completes) =>
          LET v == Byte(EffectiveAddress(OP_CODES_MAP[Fetched].mode, pc + 1))
          IN  register_a' = v /\ FlagsDescribe(status', v)]_vars
  /\ [][(phase = "idle" /\ call.fn = "lda" /\ phase' = "returned") =>
          /\ call.mode \in AddressModes
          /\ LET v == Byte(EffectiveAddress(call.mode, pc))
             IN  register_a' = v /\ FlagsDescribe(status', v)]_vars

\* C1's case: LDA ($nn),Y has replaced a positive accumulator by 0x80.
C1_Witness ==
  /\ AfterTested(1)
  /\ TestedCode = \hB1
  /\ Byte(PrgStart + 7) = \h01
  /\ register_a = \h80
  /\ NegativeFlag(status)
(* C2: for every accumulator value, Transfer-Accumulator-to-X (0xAA) ends  *)
(* with indexX equal to the accumulator and Transfer-Accumulator-to-Y      *)
(* (0xA8) with indexY equal to it; the accumulator is unchanged, and the   *)
(* Zero and Negative flags describe the destination register's new value.  *)
C2_TransfersCopyAndFlag ==
  /\ [][(Fetching /\ Fetched = \hAA /\ Completes) =>
          /\ register_x' = register_a
          /\ register_a' = register_a
          /\ FlagsDescribe(status', register_x')]_vars
  /\ [][(Fetching /\ Fetched = \hA8 /\ Completes) =>
          /\ register_y' = register_a
          /\ register_a' = register_a
          /\ FlagsDescribe(status', register_y')]_vars

\* C2's case: TAY has replaced indexY = 0x7F by the accumulator's 0x80.
C2_Witness ==
  /\ AfterTested(1)
  /\ TestedCode = \hA8
  /\ Byte(PrgStart + 4) = \h7F
  /\ register_a = \h80
  /\ register_y = \h80
  /\ register_x # \h80
  /\ NegativeFlag(status)

(* C3: Increment-X (0xE8) and Increment-Y (0xC8) set the register to       *)
(* (old + 1) mod 256 and the Zero and Negative flags from the new value:   *)
(* 0xFF becomes 0x00 with Zero set and Negative clear, 0x00 becomes 0x01   *)
(* with both clear, and two increments from 0xFF give 0x01.                *)
C3_IncrementsWrap ==
  /\ [][(Fetching /\ Fetched = \hE8 /\ Completes) =>
          /\ register_x' = (register_x + 1) % 256
          /\ FlagsDescribe(status', register_x')
          /\ register_x = \hFF =>
               register_x' = 0 /\ ZeroFlag(status') /\ ~NegativeFlag(status')
          /\ register_x = \h00 =>
               register_x' = 1 /\ ~ZeroFlag(status') /\ ~NegativeFlag(status')]_vars
  /\ [][(Fetching /\ Fetched = \hC8 /\ Completes) =>
          /\ register_y' = (register_y + 1) % 256
          /\ FlagsDescribe(status', register_y')
          /\ register_y = \hFF =>
               register_y' = 0 /\ ZeroFlag(status') /\ ~NegativeFlag(status')
          /\ register_y = \h00 =>
               register_y' = 1 /\ ~ZeroFlag(status') /\ ~NegativeFlag(status')]_vars
  /\ []((AfterTested(2) /\ TestedCode = \hE8 /\ Byte(PrgStart + 1) = \hFF) =>
          register_x = \h01)
  /\ []((AfterTested(2) /\ TestedCode = \hC8 /\ Byte(PrgStart + 4) = \hFF) =>
          register_y = \h01)

\* C3's case: LDA #0xFF, TAX, ..., INX, INX has run and indexX is 0x01.
C3_Witness ==
  /\ AfterTested(2)
  /\ TestedCode = \hE8
  /\ Byte(PrgStart + 1) = \hFF
  /\ register_x = \h01
  /\ ~ZeroFlag(status)

(* C4: for ZeroPage-X and ZeroPage-Y addressing, for every operand byte b  *)
(* and index i the effective address is (b + i) mod 256: it lies in        *)
(* 0x0000..0x00FF and never carries into the high byte; and a              *)
(* Store-Accumulator with ZeroPage-X (0x95) writes the accumulator at      *)
(* exactly that address.                                                   *)
C4_ZeroPageIndexedWraps ==
  /\ []((call.fn = "get_operand_address" /\ call.mode = "ZeroPage_X" /\ phase # "idle") =>
          /\ phase = "returned"
          /\ ret.val = (Byte(pc) + register_x) % 256
          /\ ret.val \in 0..255)
  /\ []((call.fn = "get_operand_address" /\ call.mode = "ZeroPage_Y" /\ phase # "idle") =>
          /\ phase = "returned"
          /\ ret.val = (Byte(pc) + register_y) % 256
          /\ ret.val \in 0..255)
  /\ [][(Fetching /\ Fetched = \h95 /\ pc + 1 < MemSize) =>
          /\ Completes
          /\ memory' = MemPut(memory, (Byte(pc + 1) + register_x) % 256, register_a)]_vars

\* C4's case: STA $FF,X with indexX = 0x01 has stored the accumulator's 0x80
\* at 0x0000 and left 0x0100 alone.
C4_Witness ==
  /\ AfterTested(1)
  /\ TestedCode = \h95
  /\ Byte(UnderTest + 1) = \hFF
  /\ register_x = \h01
  /\ register_a = \h80
  /\ memory.fill = \h00
  /\ Byte(\h0000) = \h80
  /\ Byte(\h0100) = \h00

(* C5: for every 16-bit x and every address at which a word fits (addr and *)
(* addr + 1 are both in memory), mem_write_u16(addr, x) returns and leaves *)
(* the low byte of x at addr and the high byte at addr + 1, and            *)
(* mem_read_u16(addr) after it returns x.                                  *)
C5_WordRoundTrip ==
  /\ (call.fn \in {"mem_write_u16", "mem_read_u16"} /\ phase = "returned") =>
       /\ Byte(call.pos) = call.data % 256
       /\ Byte(call.pos + 1) = call.data \div 256
  /\ (call.fn = "mem_read_u16" /\ phase = "returned") => ret.val = call.data
  /\ (call.fn \in {"mem_write_u16", "mem_read_u16"} /\ call.pos + 1 < MemSize) =>
       phase # "panicked"

\* C5's case: 0x1234 written at 0xFFFD over a memory of 0xFF, and read back.
C5_Witness ==
  /\ call.fn = "mem_read_u16"
  /\ phase = "returned"
  /\ call.pos = \hFFFD
  /\ call.data = \h1234
  /\ memory.fill = \hFF
  /\ ret.val = \h1234
(* C6: when the dispatch loop completes an instruction whose opcode it     *)
(* fetched at address p, the program counter is p + L, L being the length  *)
(* the opcode table gives for that opcode; so the next opcode fetched is   *)
(* the byte right after the instruction's last operand byte.               *)
C6_AdvancesByLength ==
  [][(Fetching /\ Completes) =>
       /\ Fetched \in DOMAIN OP_CODES_MAP
       /\ pc' = pc + OP_CODES_MAP[Fetched].len]_vars

\* C6's case: the three-byte LDA $nnnn,X under test has completed.
C6_Witness ==
  /\ AfterTested(1)
  /\ TestedCode = \hBD
  /\ pc = PrgStart + 11
  /\ register_a = \hFF

C8_ResetKeepsIndexY ==
  /\ [][phase = "loaded" =>
          /\ register_a' = 0
          /\ register_x' = 0
          /\ status' = 0
          /\ pc' = Word(\hFFFC)
          /\ register_y' = register_y
          /\ memory' = memory]_vars
  /\ [][phase' = "loaded" => register_y' = register_y]_vars

\* C8's case: the second run starts with the 0xFF the first left in indexY.
C8_Witness ==
  /\ phase = "running"
  /\ runs = 2
  /\ pc = \h8000
  /\ register_y = \hFF
  /\ register_a = 0
  /\ register_x = 0
  /\ status = 0

(* C9, as stated: when Halt (0x00) ends the loop, accumulator, indexX,     *)
(* indexY, status, the program counter and memory have the values they had *)
(* when the Halt opcode was about to be fetched.                           *)
C9_HaltChangesNothing ==
  [][(phase = "running" /\ phase' = "halted") =>
       UNCHANGED <<register_a, register_x, register_y, status, pc, memory>>]_vars

(* C9, amended: Halt (0x00) ends the loop; accumulator, indexX, indexY,    *)
(* status and memory have the values they had when the Halt opcode was     *)
(* about to be fetched, and the program counter is one past the Halt       *)
(* opcode's address; the halted state is reached only by fetching Halt.    *)
C9_HaltKeepsAllButPc ==
  /\ [][(phase = "running" /\ phase' = "halted") =>
          /\ pc < MemSize
          /\ Fetched = \h00
          /\ pc' = pc + 1
          /\ UNCHANGED <<register_a, register_x, register_y, status, memory>>]_vars
  /\ [][(phase' = "halted" /\ phase # "halted") => phase = "running"]_vars
  /\ [][(Fetching /\ Fetched = \h00) => phase' = "halted"]_vars

\* C9's case: LDA #0xFF, TAX, Halt has halted.
C9_Witness ==
  /\ phase = "halted"
  /\ call.program = <<\hA9, \hFF, \hAA>>
  /\ pc = \h8004
  /\ register_a = \hFF
  /\ register_x = \hFF
  /\ NegativeFlag(status)

(* C10: when the loop fetches a byte that is absent from the opcode table, *)
(* or in the table with no operation of the executor (any byte but the     *)
(* LDA, STA, TAX, TAY, INX, INY and Halt opcodes), the run stops in a      *)
(* fatal unsupported-opcode state, nothing is executed after it, and       *)
(* accumulator, indexX, indexY, status and memory are as the instructions  *)
(* completed before it left them.                                          *)
Executable ==
  {\hA9, \hA5, \hB5, \hAD, \hBD, \hB9, \hA1, \hB1, \h85, \h95, \h8D, \h9D, \h99, \h81,
   \h91, \hAA, \hA8, \hE8, \hC8, \h00}
C10_UnsupportedOpcodeIsFatal ==
  /\ [][(Fetching /\ Fetched \notin Executable) =>
          /\ phase' = "panicked"
          /\ panic' = IF Fetched \in DOMAIN OP_CODES_MAP
                        THEN NotYetImplemented ELSE OpcodeNotValid
          /\ UNCHANGED <<register_a, register_x, register_y, status, memory>>]_vars
  /\ [][phase # "panicked"]_vars

\* C10's case: the byte 0xFF, absent from the table, was fetched after the
\* image's first instructions had set A, X and Y.
C10_Witness ==
  /\ phase = "panicked"
  /\ panic = OpcodeNotValid
  /\ call.fn = "load_and_run"
  /\ TestedCode = \hFF
  /\ pc = UnderTest + 1
  /\ register_a = \h80
  /\ register_x = \h7F
  /\ register_y = \hFF
  /\ NegativeFlag(status)

(* C11: the dispatch loop that load_and_run starts leaves the running      *)
(* state only through Halt or through the unsupported-opcode fatal error   *)
(* (a byte absent from the table, or one with no operation): no other exit *)
(* or failure of the run is reachable, for any image that fits in memory   *)
(* and any memory content.                                                 *)
C11_OnlyHaltOrUnsupportedOpcode ==
  [][(phase = "running" /\ call.fn = "load_and_run" /\ phase' # "running") =>
       \/ phase' = "halted"
       \/ phase' = "panicked" /\ panic' \in {OpcodeNotValid, NotYetImplemented}]_vars

(* C12: in a run, each of LDA, TAX, TAY, INX, INY leaves status bit 1      *)
(* equal to (r = 0) and bit 7 equal to bit 7 of r, r being its result (the *)
(* new accumulator, indexX or indexY); a Store-Accumulator leaves status   *)
(* as it was, so that after LDA #v and any number of stores the two bits   *)
(* still describe v; and the two bits describe one and the same result:    *)
(* after reset they are never both set.                                    *)
C12_FlagsFresh ==
  /\ [][(Fetching /\ Fetched \in LdaCodes /\ Completes) =>
          FlagsDescribe(status', register_a')]_vars
  /\ [][(Fetching /\ Fetched \in {\hAA, \hE8} /\ Completes) =>
          FlagsDescribe(status', register_x')]_vars
  /\ [][(Fetching /\ Fetched \in {\hA8, \hC8} /\ Completes) =>
          FlagsDescribe(status', register_y')]_vars
  /\ [][(Fetching /\ Fetched \in StaCodes /\ Completes) => status' = status]_vars
  /\ []((call.fn = "load_and_run" /\ phase \in {"running", "halted", "panicked"}) =>
          ~(ZeroFlag(status) /\ NegativeFlag(status)))
  /\ []((TestedCode \in StaCodes /\ \E n \in 1..MaxReps : AfterTested(n)) =>
          FlagsDescribe(status, call.program[8]))

\* C12's case: after LDA #0x80, two STA ($nn),Y have completed and the
\* Negative flag is still the one of 0x80.
C12_Witness ==
  /\ AfterTested(2)
  /\ TestedCode = \h91
  /\ call.program[8] = \h80
  /\ register_a = \h80
  /\ NegativeFlag(status)
  /\ ~ZeroFlag(status)

(* C13: no instruction of the loop changes a status bit other than bit 1   *)
(* and bit 7: whatever status was, bits 0 and 2..6 are after each pass of  *)
(* the loop what they were before it; reset sets status to 0, so in every  *)
(* state of a run started by load_and_run those six bits are 0.            *)
OtherBits(s) == s - 128 * ((s \div 128) % 2) - 2 * ((s \div 2) % 2)
C13_OtherStatusBitsKept ==
  /\ [][phase = "running" => OtherBits(status') = OtherBits(status)]_vars
  /\ [][phase = "loaded" => status' = 0]_vars
  /\ []((call.fn = "load_and_run" /\ phase \in {"running", "halted", "panicked"}) =>
          OtherBits(status) = 0)

\* C13's case: run was entered with every status bit set, its INX left
\* indexX = 0x80 and cleared the Zero flag only.
C13_Witness ==
  /\ call.fn = "run"
  /\ call.program = <<\hE8>>
  /\ phase = "running"
  /\ pc = \hFFFF
  /\ register_x = \h80
  /\ status = \hFD

(* C14: a Store-Accumulator that completes, in each of its seven           *)
(* addressing modes, writes the accumulator at the effective address of    *)
(* its mode and changes nothing else: status, accumulator, indexX, indexY  *)
(* and every other memory byte are as before; in the repository's test     *)
(* (STA $A0,X with indexX = 1, then 2) the bytes at 0xA1 and 0xA2 are the  *)
(* accumulator.                                                            *)
C14_StaWritesOnlyItsAddress ==
  /\ [][(Fetching /\ Fetched \in StaCodes /\ Completes) =>
          /\ memory' = MemPut(memory, EffectiveAddress(OP_CODES_MAP[Fetched].mode, pc + 1),
                              register_a)
          /\ UNCHANGED <<register_a, register_x, register_y, status>>]_vars
  /\ [](\A v \in SeedBytes :
          (call.program = StaZeroPageX(v).program /\ phase = "halted") =>
            /\ Byte(\hA1) = v
            /\ Byte(\hA2) = v
            /\ \A i \in DOMAIN memory.cells : i \in {\hA1, \hA2, \hFFFD} \/ i >= PrgStart)

\* C14's case: with the Zero flag set by LDA #0x00, STA $FF00,Y with
\* indexY = 0x7F has written 0x00 at 0xFF7F over a memory of 0xFF.
C14_Witness ==
  /\ AfterTested(1)
  /\ TestedCode = \h99
  /\ register_a = \h00
  /\ register_y = \h7F
  /\ memory.fill = \hFF
  /\ Byte(UnderTest + 1) = \h00
  /\ Byte(UnderTest + 2) = \hFF
  /\ Byte(\hFF7F) = \h00
  /\ Byte(\hFF7E) = \hFF
  /\ ZeroFlag(status)

(* C15: Indirect-X addressing.  With base the byte at the program counter  *)
(* and ptr = (base + indexX) mod 256, the resolver returns the             *)
(* little-endian word at ptr, memory[ptr] + 256 * memory[ptr + 1], for     *)
(* every base and indexX; LDA ($nn,X) (0xA1) loads the byte at that        *)
(* address; with operand 0x00, indexX = 0x01, memory[0x01] = 0x05 and      *)
(* memory[0x02] = 0x07 it loads the byte at 0x0705.                        *)
C15_IndirectXPreIndexed ==
  /\ []((call.fn = "get_operand_address" /\ call.mode = "Indirect_X" /\ phase # "idle") =>
          LET ptr == (Byte(pc) + register_x) % 256
          IN  /\ phase = "returned"
              /\ ret.val = Byte(ptr) + 256 * Byte(ptr + 1))
  /\ [][(Fetching /\ Fetched = \hA1 /\ Completes) =>
          LET ptr == (Byte(pc + 1) + register_x) % 256
          IN  register_a' = Byte(Byte(ptr) + 256 * Byte(ptr + 1))]_vars
  /\ [][(Fetching /\ Fetched = \hA1 /\ Byte(pc + 1) = \h00 /\ register_x = \h01
           /\ Byte(\h01) = \h05 /\ Byte(\h02) = \h07) =>
          Completes /\ register_a' = Byte(\h0705)]_vars
  /\ [](\A v \in SeedBytes :
          (call.program = LdaIndirectX(v).program /\ Byte(\h0705) = v /\ phase = "halted") =>
            register_a = v)

\* C15's case: base 0xFF and indexX = 0x01 wrap to ptr = 0x00, where the
\* patterned zero page holds 0x05 and 0x0C: the address is 0x0C05.
C15_Witness ==
  /\ call.fn = "get_operand_address"
  /\ call.mode = "Indirect_X"
  /\ phase = "returned"
  /\ Byte(pc) = \hFF
  /\ register_x = \h01
  /\ Byte(\h00) = \h05
  /\ Byte(\h01) = \h0C
  /\ Byte(\hFF) # \h05
  /\ ret.val = \h0C05

(* C16: Indirect-Y addressing.  With base the byte at the program counter  *)
(* and derefBase the little-endian word at base, the resolver returns      *)
(* (derefBase + indexY) mod 65536 for every base, derefBase and indexY:    *)
(* the index is added after the dereference and wraps at 16 bits; LDA      *)
(* ($nn),Y (0xB1) loads the byte at that address; with operand 0x01,       *)
(* indexY = 0x01, memory[0x01] = 0x03 and memory[0x02] = 0x07 it loads the *)
(* byte at 0x0704.                                                         *)
C16_IndirectYPostIndexed ==
  /\ []((call.fn = "get_operand_address" /\ call.mode = "Indirect_Y" /\ phase # "idle") =>
          LET base == Byte(pc)
              derefBase == Byte(base) + 256 * Byte(base + 1)
          IN  /\ phase = "returned"
              /\ ret.val = (derefBase + register_y) % 65536)
  /\ [][(Fetching /\ Fetched = \hB1 /\ Completes) =>
          LET base == Byte(pc + 1)
              derefBase == Byte(base) + 256 * Byte(base + 1)
          IN  register_a' = Byte((derefBase + register_y) % 65536)]_vars
  /\ [][(Fetching /\ Fetched = \hB1 /\ Byte(pc + 1) = \h01 /\ register_y = \h01
           /\ Byte(\h01) = \h03 /\ Byte(\h02) = \h07) =>
          Completes /\ register_a' = Byte(\h0704)]_vars
  /\ [](\A v \in SeedBytes :
          (call.program = LdaIndirectY(v).program /\ Byte(\h0704) = v /\ phase = "halted") =>
            register_a = v)

\* C16's case: the word at base is 0xFFFF and indexY = 0x01: the address
\* wraps to 0x0000.
C16_Witness ==
  /\ call.fn = "get_operand_address"
  /\ call.mode = "Indirect_Y"
  /\ phase = "returned"
  /\ Byte(pc) = \h10
  /\ Byte(\h10) = \hFF
  /\ Byte(\h11) = \hFF
  /\ register_y = \h01
  /\ ret.val = \h0000

(* C17: a Store-Accumulator that completes leaves the accumulator's value  *)
(* at its effective address, and no other pass of the loop changes memory, *)
(* so the value is what every later read of that address gets until it is  *)
(* stored to again: an LDA of the address loads it, an indirect LDA uses   *)
(* it as its pointer, and when the program counter reaches the address it  *)
(* is the opcode fetched (a store of INX over an unsupported byte of the   *)
(* image makes the run execute INX there, a store of 0x00 makes it halt    *)
(* there).                                                                 *)
C17_StoresAreVisible ==
  /\ [][(Fetching /\ Fetched \in StaCodes /\ Completes) =>
          MemAt(memory', EffectiveAddress(OP_CODES_MAP[Fetched].mode, pc + 1))
            = register_a]_vars
  /\ [][(phase = "running" /\ ~(Fetching /\ Fetched \in StaCodes)) =>
          memory' = memory]_vars
  /\ [](\A v \in SeedBytes :
          /\ (call.program = StoreThenLoad(v).program /\ phase \in {"halted", "panicked"}) =>
               phase = "halted" /\ register_a = v
          /\ (call.program = StoreTwiceThenLoad(v).program /\ phase \in {"halted", "panicked"}) =>
               phase = "halted" /\ register_a = \hFF
          /\ (call.program = StoreThenPoint(v).program /\ phase \in {"halted", "panicked"}) =>
               phase = "halted" /\ register_a = \h77
          /\ (call.program = StoreThenFetch(v).program /\ phase = "running"
                /\ pc = \h8005) => Fetched = v
          /\ (call.program = StoreThenFetch(v).program /\ phase = "halted") =>
               \/ v = \h00 /\ pc = \h8006 /\ register_x = 0
               \/ v = \hE8 /\ pc = \h8007 /\ register_x = 1
          /\ (call.program = StoreThenFetch(v).program /\ phase = "panicked") =>
               v \notin Executable /\ pc = \h8006 /\ panic = OpcodeNotValid)

\* C17's case: the image has stored INX over its byte at 0x8005, has
\* executed it and has halted on the byte after it.
C17_Witness ==
  /\ call.program = StoreThenFetch(\hE8).program
  /\ phase = "halted"
  /\ Byte(\h8005) = \hE8
  /\ register_x = 1
  /\ pc = \h8007

TouchesTop(mode, p) ==
  \/ p + (IF mode \in {"Absolute", "Absolute_X", "Absolute_Y"} THEN 1 ELSE 0) >= \hFFFF
  \/ EffectiveAddress(mode, p) = \hFFFF
C19_TopAddressUnreachable ==
  /\ [](\A i \in DOMAIN memory.cells : i \in 0..\hFFFE)
  /\ [][(phase = "running" /\ pc = \hFFFF) =>
          phase' = "panicked" /\ panic' = IndexOutOfBounds /\ memory' = memory]_vars
  /\ [][(Fetching /\ Fetched \in LdaCodes \cup StaCodes
           /\ TouchesTop(OP_CODES_MAP[Fetched].mode, pc + 1)) =>
          /\ phase' = "panicked"
          /\ panic' = IndexOutOfBounds
          /\ memory' = memory]_vars
  /\ [][(phase = "running" /\ panic' = IndexOutOfBounds) =>
          \/ pc = \hFFFF
          \/ /\ Fetched \in LdaCodes \cup StaCodes
             /\ TouchesTop(OP_CODES_MAP[Fetched].mode, pc + 1)]_vars
  /\ [][(phase = "idle" /\ call.fn = "mem_write_u16" /\ call.pos >= \hFFFE) =>
          /\ phase' = "panicked"
          /\ panic' = IndexOutOfBounds
          /\ memory' = IF call.pos = \hFFFE
                         THEN MemPut(memory, \hFFFE, call.data % 256) ELSE memory]_vars
  /\ [][(phase = "idle" /\ call.fn = "get_operand_address"
           /\ call.mode \in {"Absolute", "Absolute_X", "Absolute_Y"} /\ pc >= \hFFFE) =>
          phase' = "panicked" /\ panic' = IndexOutOfBounds /\ memory' = memory]_vars

\* C19's case: STA $FFFF has ended the run and memory is the loaded image
\* over zeroes.
C19_Witness ==
  /\ phase = "panicked"
  /\ panic = IndexOutOfBounds
  /\ call.fn = "load_and_run"
  /\ TestedCode = \h8D
  /\ Word(UnderTest + 1) = \hFFFF
  /\ pc = UnderTest + 1
  /\ register_a = \h80
  /\ memory.fill = \h00
  /\ DOMAIN memory.cells = (PrgStart .. (PrgStart + Len(call.program) - 2)) \cup {\hFFFD}

(* C20: every run terminates.  Each instruction the loop completes leaves  *)
(* the program counter strictly greater than the address its opcode was    *)
(* fetched at, and the program counter stays within 0..0xFFFF, so a run    *)
(* completes fewer than 65536 instructions; and every run, whatever the    *)
(* image and the memory, stores into the image included, eventually stops, *)
(* by Halt or by a fatal stop.                                             *)
C20_RunsTerminate ==
  /\ [][(Fetching /\ Completes) => pc' > pc]_vars
  /\ [](pc \in 0..\hFFFF)
  /\ [][(phase \in {"halted", "panicked"}) => phase' # "running"]_vars
  /\ (phase = "running") ~> (phase \in {"halted", "panicked"})

\* C20's case: the run that stored INX into its own image has executed four
\* instructions, the last at 0x8005, and is about to halt.
C20_Witness ==
  /\ call.program = StoreThenFetch(\hE8).program
  /\ phase = "running"
  /\ pc = \h8006
  /\ register_x = 1
  /\ Fetched = \h00
====
